---- MODULE Spec2Model ----
(***************************************************************************)
(* A model of gmadet's image grouping (stacking.py: table_obs, makelists)  *)
(* and of its Pan-STARRS sky-grid resolver (ps1_survey.py: ps1_grid).      *)
(*                                                                         *)
(* Angles are whole degrees and times whole hours.  Image coordinates are  *)
(* taken on the great circle through the poles made of the meridians       *)
(* RA = 0 and RA = 180, where the great-circle separation of two points    *)
(* is an exact whole number of degrees.                                    *)
(*                                                                         *)
(* The column idx (line 107) only ever serves to find a row of the table   *)
(* again (lines 172, 207, 213, 234, 330), and filename only to be written  *)
(* to a list.  The model numbers the rows by their place in the sorted     *)
(* table and lets that number stand for both.                              *)
(***************************************************************************)
EXTENDS Integers, Sequences, FiniteSets, TLC

\* ------------------------------------------------------------------ bounds
MaxImages == 3
\* the longest table of sky cells prepare_PS1_sub is called with
MaxCells == 1
\* the calls of prepare_PS1_sub of one run
MaxCalls == 2

\* ------------------------------------------------------------ input domains
None == <<>>
Some(v) == <<v>>
Val(o) == o[1]

Telescopes == {<<"T", " ", "1">>}
Instruments == {<<"I", "1">>, <<"I", "2">>}
Filters == {<<"r">>}
\* the partition keys in the order group_by sorts them
AllKeys ==
  << [Telescope |-> <<"T", " ", "1">>, Instrument |-> <<"I", "1">>, Filter |-> <<"r">>],
     [Telescope |-> <<"T", " ", "1">>, Instrument |-> <<"I", "2">>, Filter |-> <<"r">>] >>
Coords == {<<0, 0>>, <<0, 2>>, <<180, 80>>, <<180, 0 - 19>>}
Times == {10, 11, 12}
\* makelists' radius argument, in arcmin, and deltaT, in hours
RadiusArcmin == {0, 7200}
DeltaTs == {0, 1}

\* the headers of the images: the first instrument points at every
\* coordinate at every time, the second at the first coordinate at the
\* first time only
Headers ==
  {h \in [TELESCOP : Telescopes, INSTRUME : Instruments, FILTER : Filters,
          CRVAL : Coords,
          DATE_OBS : {None} \cup {Some(t) : t \in Times},
          JD : {None} \cup {Some(t) : t \in Times}] :
     h.INSTRUME = <<"I", "2">> =>
       /\ h.CRVAL = <<0, 0>>
       /\ h.DATE_OBS \in {None, Some(10)}
       /\ h.JD \in {None, Some(10)}}

\* ------------------------------------------------------------------- state
VARIABLES
  pc,          \* where makelists / table_obs stands
  files,       \* per image opened, when recorded: whether its header held a time
  hr,          \* table_obs' local hr: None until a header gave a time
  obs_table,   \* the lists names, RA, ... Time, then the astropy table: rows
  radius,      \* table_obs' radius, in degrees
  deltaT,      \* table_obs' deltaT, in hours
  keys,        \* the partition keys the running loop has still to visit
  loopTable,   \* the copy obs_table[mask] the running inner loop iterates
  i,           \* the position of the inner loop in loopTable
  field_id,    \* the field counter of the partition being clustered
  fkeys,       \* the fieldID keys the epoch loop has still to visit
  JD_ref,      \* the reference time of the running epoch
  epoch_id,    \* the epoch counter of the field being partitioned
  groups,      \* the groups makelists has still to write a list for
  lists,       \* the .list files of path_lists: name -> the lines written
  fields_list, \* the names written to fields.slist
  gpc,         \* where ps1_grid stands
  im,          \* ps1_grid's argument: the extent of the image's corners
  zonesLeft,   \* the zones of all_zones_id the loop has still to visit
  projcell_idx_list,  \* ps1_grid's local of that name
  all_cells,   \* ps1_grid's local of that name: the tables kept
  queried,     \* per zone visited, the cells ps1_cell_coord was called for
  gridResult,  \* the table ps1_grid returned
  prefixes,    \* stacking's prefixes the loop over fields has still to visit
  swarp,       \* the calls of swarp stacking has made, in order
  spc,         \* where prepare_PS1_sub / download_ps1_cells stands
  call,        \* the number of calls of prepare_PS1_sub begun
  method,      \* prepare_PS1_sub's method argument
  cell_table,  \* download_ps1_cells' argument of that name
  turn,        \* the turn of the loops over cells and auxiliaryFiles
  file_list,   \* download_ps1_cells' local of that name
  ps1Dir,      \* the files of ps1Dir/
  ps1RescaledDir,  \* the files of ps1RescaledDir/
  mosaicfile,  \* whether the mosaic of the input image exists
  fetched,     \* the curl commands run, in order
  rescaled,    \* the calls of linear_rescale_ps1, in order
  results      \* what each call of prepare_PS1_sub returned

stackVars == <<pc, files, hr, obs_table, radius, deltaT, keys, loopTable, i,
               field_id, fkeys, JD_ref, epoch_id, groups, lists, fields_list>>

gridVars == <<gpc, im, zonesLeft, projcell_idx_list, all_cells, queried, gridResult>>

swarpVars == <<prefixes, swarp>>

prepVars == <<spc, call, method, cell_table, turn, file_list, ps1Dir,
              ps1RescaledDir, mosaicfile, fetched, rescaled, results>>

toolVars == <<swarpVars, prepVars>>

vars == <<stackVars, gridVars, toolVars>>

loopVars == <<keys, loopTable, i, field_id, fkeys, JD_ref, epoch_id>>
outVars == <<groups, lists, fields_list>>

\* ----------------------------------------------------------------- helpers
Range(s) == {s[k] : k \in 1..Len(s)}

Abs(x) == IF x < 0 THEN 0 - x ELSE x

Min2(a, b) == IF a < b THEN a ELSE b

\* the position on the great circle RA in {0, 180} of the point (ra, dec)
CircleAngle(ra, dec) == IF ra = 0 THEN (dec + 360) % 360 ELSE (180 - dec) % 360

\* SkyCoord.separation(...).degree of two points of that circle
Separation(ra1, dec1, ra2, dec2) ==
  LET d == Abs(CircleAngle(ra1, dec1) - CircleAngle(ra2, dec2))
  IN  Min2(d, 360 - d)

KeyOf(row) ==
  [Telescope |-> row.Telescope, Instrument |-> row.Instrument, Filter |-> row.Filter]

\* group_by(["Telescope", "Instrument", "Filter"]).groups.keys
GroupKeys(tbl) ==
  SelectSeq(AllKeys, LAMBDA k : \E r \in Range(tbl) : KeyOf(r) = k)

\* the sorted sequence of a finite set of integers
RECURSIVE SortedSeq(_)
SortedSeq(S) ==
  IF S = {} THEN <<>>
  ELSE LET m == CHOOSE x \in S : \A y \in S : x <= y
       IN  <<m>> \o SortedSeq(S \ {m})

\* group_by("fieldID").groups.keys
FieldKeys(tbl) == SortedSeq({r.fieldID : r \in Range(tbl)})

\* ------------------------------------------------- table_obs: the catalog
\* lines 84-95: the time of observation in hours; with neither keyword the
\* message is printed and hr keeps what it held
HeaderTime(hdr, prev_hr) ==
  IF hdr.DATE_OBS # None THEN hdr.DATE_OBS
  ELSE IF hdr.JD # None THEN hdr.JD
  ELSE prev_hr

\* lines 98-104: what the lists get for one image
NewEntry(hdr, t) ==
  [Telescope |-> hdr.TELESCOP, Instrument |-> hdr.INSTRUME, Filter |-> hdr.FILTER,
   RA |-> hdr.CRVAL[1], Dec |-> hdr.CRVAL[2], JD |-> t]

\* lines 107-149: the row of the table made of one entry of the lists
NewRow(e) ==
  [idx |-> 0,
   Telescope |-> e.Telescope, Instrument |-> e.Instrument, Filter |-> e.Filter,
   RA |-> e.RA, Dec |-> e.Dec, JD |-> e.JD,
   fieldID |-> 0, epochID |-> 0, RA_ref |-> None, Dec_ref |-> None,
   stack_filename |-> None]

\* one turn of the loop over filenames (lines 80-104); Time.append(hr) raises
\* NameError when no header has given a time yet
ReadImage(hdr) ==
  /\ pc = "read"
  /\ Len(obs_table) < MaxImages
  /\ LET t == HeaderTime(hdr, hr)
     IN  IF t = None
         THEN /\ pc' = "error"
              /\ UNCHANGED <<hr, obs_table>>
         ELSE /\ pc' = "read"
              /\ hr' = t
              /\ obs_table' = Append(obs_table, NewEntry(hdr, Val(t)))
  /\ UNCHANGED <<radius, deltaT, loopVars, outVars>>

\* the orders in which a sort by JD can leave the entries numbered in S:
\* ascending JD, the entries of equal JD in any order
RECURSIVE RowOrders(_, _)
RowOrders(entries, S) ==
  IF S = {} THEN {<<>>}
  ELSE UNION {{<<k>> \o o : o \in RowOrders(entries, S \ {k})} :
                k \in {j \in S : \A m \in S : entries[j].JD <= entries[m].JD}}

\* lines 107-152: the table of the lists, sorted by JD: the order of rows
\* of equal JD is the sort's choice.  The rows are numbered as sorted
SortedTables(entries) ==
  {[k \in 1..Len(entries) |-> [NewRow(entries[p[k]]) EXCEPT !.idx = k]] :
     p \in RowOrders(entries, 1..Len(entries))}

\* the end of the loop over filenames, then lines 107-154; with no image
\* every later loop runs zero times
Sort ==
  /\ pc = "read"
  /\ obs_table' \in SortedTables(obs_table)
  /\ keys' = GroupKeys(obs_table')
  /\ pc' = IF keys' = <<>> THEN "done" ELSE "field"
  /\ field_id' = 0
  /\ UNCHANGED <<files, hr, radius, deltaT, loopTable, i, fkeys, JD_ref, epoch_id,
                 outVars>>

\* ------------------------------------------------ table_obs: the fields
\* lines 158-162 with a mask that takes every row
InPartitionAll(row, key) == TRUE

\* lines 158-162, 222-226: the mask of the partition key
InPartition(row, key) == KeyOf(row) = key

PartitionRows(tbl, key) == SelectSeq(tbl, LAMBDA r : InPartition(r, key))

\* group_by("fieldID").groups.keys of the partition at the head of ks
FieldKeysOfHead(tbl, ks) ==
  IF ks = <<>> THEN <<>> ELSE FieldKeys(PartitionRows(tbl, Head(ks)))

\* lines 173-175, 208-210, 214-216: the three writes to one row
SetField(tbl, idx, fid, ra, dec) ==
  [k \in 1..Len(tbl) |->
     IF tbl[k].idx = idx
     THEN [tbl[k] EXCEPT !.fieldID = fid, !.RA_ref = ra, !.Dec_ref = dec]
     ELSE tbl[k]]

\* lines 177-178: the next turn, from position from on, whose row has
\* fieldID 0 in the copy the loop iterates; 0 when the loop is over
NextUnassigned(rows, from) ==
  LET S == {k \in from..Len(rows) : rows[k].fieldID = 0}
  IN  IF S = {} THEN 0 ELSE CHOOSE k \in S : \A m \in S : k <= m

\* where the loop of line 177 goes after a turn: to its next turn on an
\* unassigned row, else to the next partition (line 155), else to the epoch
\* loops (lines 219 and 228) over the table tbl
FieldLoopGoes(rows, nxt, tbl) ==
  IF nxt # 0
  THEN /\ i' = nxt
       /\ loopTable' = rows
       /\ UNCHANGED <<pc, keys, fkeys>>
  ELSE /\ i' = 0
       /\ loopTable' = <<>>
       /\ IF Len(keys) > 1
          THEN /\ keys' = Tail(keys)
               /\ UNCHANGED <<pc, fkeys>>
          ELSE /\ pc' = "epoch"
               /\ keys' = GroupKeys(tbl)
               /\ fkeys' = FieldKeysOfHead(tbl, keys')

\* lines 158-177: a partition starts: its first row founds field 1, and the
\* loop starts over the copy obs_table[mask] made after that write
FieldStartPartition ==
  /\ pc = "field"
  /\ i = 0
  /\ LET first == PartitionRows(obs_table, Head(keys))[1]
         tbl   == SetField(obs_table, first.idx, 1, Some(first.RA), Some(first.Dec))
         rows  == PartitionRows(tbl, Head(keys))
     IN  /\ obs_table' = tbl
         /\ FieldLoopGoes(rows, NextUnassigned(rows, 1), tbl)
  /\ field_id' = 1
  /\ UNCHANGED <<files, hr, radius, deltaT, JD_ref, epoch_id, outVars>>

SepMinInit == 100
NoField == -1

\* line 202 with <= for the first <
QualifiesUpToRadius(sep, rad, sep_min) == sep <= rad /\ sep < sep_min

\* line 202
Qualifies(sep, rad, sep_min) == sep < rad /\ sep < sep_min

\* lines 190-204: the loop over the fields of the partition; acc holds the
\* locals sep_min, field_ref, ra_ref and dec_ref
RECURSIVE ScanFields(_, _, _, _, _)
ScanFields(rows2, fks, data, rad, acc) ==
  IF fks = <<>> THEN acc
  ELSE LET rows3 == SelectSeq(rows2, LAMBDA r : r.fieldID = Head(fks))
           ra    == rows3[1].RA
           dec   == rows3[1].Dec
           sep   == Separation(data.RA, data.Dec, ra, dec)
           hit   == Qualifies(sep, rad, acc.sep_min)
       IN  ScanFields(rows2, Tail(fks), data, rad,
             [sep_min   |-> IF hit THEN sep ELSE acc.sep_min,
              field_ref |-> IF hit THEN Head(fks) ELSE acc.field_ref,
              ra_ref    |-> Some(ra),
              dec_ref   |-> Some(dec)])

\* lines 187-204 for the row data of the partition key
ClosestField(tbl, key, data, rad) ==
  LET rows2 == SelectSeq(tbl, LAMBDA r : r.fieldID # 0 /\ InPartition(r, key))
  IN  ScanFields(rows2, FieldKeys(rows2), data, rad,
        [sep_min |-> SepMinInit, field_ref |-> NoField,
         ra_ref |-> None, dec_ref |-> None])

\* lines 206-216 without the else of line 211
AssignFieldNoElse(tbl, data, acc, fid) ==
  IF acc.field_ref # NoField
  THEN SetField(tbl, data.idx, acc.field_ref, acc.ra_ref, acc.dec_ref)
  ELSE tbl

\* lines 206-216: the row data joins the field found, or founds a new one
AssignField(tbl, data, acc, fid) ==
  IF acc.field_ref # NoField
  THEN SetField(tbl, data.idx, acc.field_ref, acc.ra_ref, acc.dec_ref)
  ELSE SetField(tbl, data.idx, fid + 1, Some(data.RA), Some(data.Dec))

\* one turn of the loop of line 177 on a row not yet in a field
FieldAssign ==
  /\ pc = "field"
  /\ i >= 1
  /\ LET data == loopTable[i]
         acc  == ClosestField(obs_table, Head(keys), data, radius)
     IN  /\ obs_table' = AssignField(obs_table, data, acc, field_id)
         /\ field_id' = IF acc.field_ref # NoField THEN field_id ELSE field_id + 1
         /\ FieldLoopGoes(loopTable, NextUnassigned(loopTable, i + 1), obs_table')
  /\ UNCHANGED <<files, hr, radius, deltaT, JD_ref, epoch_id, outVars>>

\* ------------------------------------------------ table_obs: the epochs
FieldRows(tbl, key, fid) ==
  SelectSeq(tbl, LAMBDA r : r.fieldID = fid /\ InPartition(r, key))

\* line 233 with < for <=
SameEpochStrict(jd, ref, dT) == jd < ref + dT

\* line 233 with a window an hour longer
SameEpochLonger(jd, ref, dT) == jd <= ref + dT + 1

\* line 233
SameEpoch(jd, ref, dT) == jd <= ref + dT

\* line 237 with a step of two
NextEpochByTwo(e) == e + 2

\* line 237
NextEpoch(e) == e + 1

\* lines 234-235, 239-240 with the mask of line 234 selecting every row
SetEpochAll(tbl, idx, eid) ==
  [k \in 1..Len(tbl) |-> [tbl[k] EXCEPT !.epochID = eid]]

\* lines 234-235, 239-240
SetEpoch(tbl, idx, eid) ==
  [k \in 1..Len(tbl) |->
     IF tbl[k].idx = idx THEN [tbl[k] EXCEPT !.epochID = eid] ELSE tbl[k]]

\* lines 295-297: the groups of the table, partition by partition, each
\* partition's (fieldID, epochID) keys in ascending order
RECURSIVE GroupList(_, _)
GroupList(tbl, ks) ==
  IF ks = <<>> THEN <<>>
  ELSE LET rows == PartitionRows(tbl, Head(ks))
           fids == FieldKeys(rows)
           OfField(f) ==
             LET eids == SortedSeq({r.epochID : r \in {x \in Range(rows) : x.fieldID = f}})
             IN  [k \in 1..Len(eids) |->
                    [key |-> Head(ks), fieldID |-> f, epochID |-> eids[k]]]
           RECURSIVE Cat(_)
           Cat(fs) == IF fs = <<>> THEN <<>> ELSE OfField(Head(fs)) \o Cat(Tail(fs))
       IN  Cat(fids) \o GroupList(tbl, Tail(ks))

\* lines 232-240: the turn of the loop on rows[pos], with the locals JD_ref
\* = ref and epoch_id = eid; then the loop's next turn, else the next field
\* (line 228), else the next partition (line 219), else table_obs returns
\* (line 242) and makelists goes on to its lists
EpochTurn(rows, pos, ref, eid) ==
  /\ LET data == rows[pos]
     IN  IF SameEpoch(data.JD, ref, deltaT)
         THEN /\ obs_table' = SetEpoch(obs_table, data.idx, eid)
              /\ epoch_id' = eid
              /\ JD_ref' = ref
         ELSE /\ epoch_id' = NextEpoch(eid)
              /\ JD_ref' = data.JD
              /\ obs_table' = SetEpoch(obs_table, data.idx, epoch_id')
  /\ IF pos < Len(rows)
     THEN /\ i' = pos + 1
          /\ loopTable' = rows
          /\ UNCHANGED <<pc, keys, fkeys, groups>>
     ELSE /\ i' = 0
          /\ loopTable' = <<>>
          /\ IF Len(fkeys) > 1
             THEN /\ fkeys' = Tail(fkeys)
                  /\ UNCHANGED <<pc, keys, groups>>
             ELSE IF Len(keys) > 1
             THEN /\ keys' = Tail(keys)
                  /\ fkeys' = FieldKeysOfHead(obs_table', keys')
                  /\ UNCHANGED <<pc, groups>>
             ELSE /\ keys' = <<>>
                  /\ fkeys' = <<>>
                  /\ pc' = "lists"
                  /\ groups' = GroupList(obs_table', GroupKeys(obs_table'))

\* lines 229-232: a field starts, and the first turn of its loop
EpochStartField ==
  /\ pc = "epoch"
  /\ i = 0
  /\ LET rows == FieldRows(obs_table, Head(keys), Head(fkeys))
     IN  EpochTurn(rows, 1, rows[1].JD, 1)
  /\ UNCHANGED <<files, hr, radius, deltaT, field_id, lists, fields_list>>

\* a later turn of the loop of line 232
EpochAssign ==
  /\ pc = "epoch"
  /\ i >= 1
  /\ EpochTurn(loopTable, i, JD_ref, epoch_id)
  /\ UNCHANGED <<files, hr, radius, deltaT, field_id, lists, fields_list>>

\* ------------------------------------------------------ makelists: lists
DigitChars == <<"0", "1", "2", "3", "4", "5", "6", "7", "8", "9">>

\* str(n) of an integer n >= 0
RECURSIVE Str(_)
Str(n) == IF n < 10 THEN <<DigitChars[n + 1]>>
          ELSE Str(n \div 10) \o <<DigitChars[(n % 10) + 1]>>

\* "%03d" % n of an integer n >= 0
Pad3(n) ==
  LET s == Str(n)
  IN  IF Len(s) >= 3 THEN s
      ELSE IF Len(s) = 2 THEN <<"0">> \o s
      ELSE <<"0", "0">> \o s

\* str(np.round(x, 3)) of a whole number of degrees x
RoundStr(x) ==
  (IF x < 0 THEN <<"-">> ELSE <<>>) \o Str(Abs(x)) \o <<".", "0">>

\* s.replace(ch, "")
Remove(s, ch) == SelectSeq(s, LAMBDA c : c # ch)

\* lines 302-325
ListName(tel, band, ra_ref, dec_ref, fid, eid) ==
  Remove(tel, " ") \o <<"_">> \o Remove(band, " ") \o <<"_">>
    \o Remove(RoundStr(ra_ref), ".") \o <<"_">>
    \o Remove(RoundStr(dec_ref), ".")
    \o <<"_", "f", "i", "e", "l", "d", "_">> \o Pad3(fid) \o <<"_">> \o Pad3(eid)

\* lines 298-301
GroupRows(tbl, g) ==
  SelectSeq(tbl, LAMBDA r : /\ r.fieldID = g.fieldID
                            /\ r.epochID = g.epochID
                            /\ InPartition(r, g.key))

\* lines 302-325 for the group g
GroupName(tbl, g) ==
  LET rows == GroupRows(tbl, g)
  IN  ListName(rows[1].Telescope, rows[1].Filter,
               Val(rows[1].RA_ref), Val(rows[1].Dec_ref), g.fieldID, g.epochID)

\* open(..., "w"): the file name holds exactly the lines now written
WriteFile(fs, name, lines) ==
  [n \in (DOMAIN fs) \cup {name} |-> IF n = name THEN lines ELSE fs[n]]

\* one turn of the loop of line 295 (lines 298-333), and line 334 after the last
WriteList ==
  /\ pc = "lists"
  /\ LET g    == Head(groups)
         rows == GroupRows(obs_table, g)
         name == GroupName(obs_table, g)
     IN  /\ lists' = WriteFile(lists, name, [k \in 1..Len(rows) |-> rows[k].idx])
         /\ fields_list' = Append(fields_list, name)
         /\ obs_table' =
              [k \in 1..Len(obs_table) |->
                 IF \E r \in Range(rows) : r.idx = obs_table[k].idx
                 THEN [obs_table[k] EXCEPT !.stack_filename = name]
                 ELSE obs_table[k]]
  /\ groups' = Tail(groups)
  /\ pc' = IF Len(groups) > 1 THEN "lists" ELSE "done"
  /\ UNCHANGED <<files, hr, radius, deltaT, loopVars>>

\* ------------------------------------------------- ps1_survey: the grid
\* Sky coordinates are whole numbers of pixels of 0.25 arcsec (line 26), so
\* that a degree is 14400, and the tangent plane of a projection cell is
\* taken flat: a pixel offset is the same offset on the sky.
DegPix == 14400
FullCirclePix == 360 * DegPix

\* ps1_survey/ps1grid.fits: three zones of a grid in the manner of the PS1
\* one with cells ten times as wide, in ascending ZONE.  The cells of zones
\* 21 and 23 are 40 degrees apart and cover their zones; those of zone 22
\* are 60 degrees apart and leave gaps
ps1grid ==
  << [ZONE |-> 21, PROJCELL |-> 100, NBAND |-> 9, DEC |-> 0 - 40 * DegPix,
      DEC_MIN |-> 0 - 60 * DegPix, DEC_MAX |-> 0 - 20 * DegPix,
      XCELL |-> 63000, YCELL |-> 63000, CRPIX1 |-> 240, CRPIX2 |-> 240],
     [ZONE |-> 22, PROJCELL |-> 109, NBAND |-> 6, DEC |-> 0,
      DEC_MIN |-> 0 - 20 * DegPix, DEC_MAX |-> 20 * DegPix,
      XCELL |-> 63000, YCELL |-> 63000, CRPIX1 |-> 240, CRPIX2 |-> 240],
     [ZONE |-> 23, PROJCELL |-> 115, NBAND |-> 9, DEC |-> 40 * DegPix,
      DEC_MIN |-> 20 * DegPix, DEC_MAX |-> 60 * DegPix,
      XCELL |-> 63000, YCELL |-> 63000, CRPIX1 |-> 240, CRPIX2 |-> 240] >>

\* the extents of the images, in degrees
ImageRAs == {5, 20, 30, 100, 355}
ImageDecs == {0 - 65, 0 - 45, 0 - 35, 0 - 20, 0 - 10, 10, 35, 65}
Footprints ==
  {f \in [ra_min : ImageRAs, ra_max : ImageRAs, dec_min : ImageDecs, dec_max : ImageDecs] :
     f.ra_min <= f.ra_max /\ f.dec_min <= f.dec_max}
InPixels(f) ==
  [ra_min |-> f.ra_min * DegPix, ra_max |-> f.ra_max * DegPix,
   dec_min |-> f.dec_min * DegPix, dec_max |-> f.dec_max * DegPix]

\* line 18
x_center == 5
y_center == 5

\* lines 16-22 with sub-tiles 500 pixels apart
get_crpix_500(proj_crpix1, proj_crpix2, Xcell, Ycell, x, y) ==
  <<proj_crpix1 + (x_center - x) * (Xcell - 500),
    proj_crpix2 + (y_center - y) * (Ycell - 500)>>

\* lines 16-22
get_crpix(proj_crpix1, proj_crpix2, Xcell, Ycell, x, y) ==
  <<proj_crpix1 + (x_center - x) * (Xcell - 480),
    proj_crpix2 + (y_center - y) * (Ycell - 480)>>

\* lines 24-55: the sky extent of the sub-tile (x, y): the corners (0, 0),
\* (Xcell, 0), (Xcell, Ycell), (0, Ycell) through a WCS of reference pixel
\* crpix, reference value (RA, Dec) and steps (-1, +1) pixel
get_RADEC_coord(proj_crpix1, proj_crpix2, Xcell, Ycell, x, y, RA, Dec) ==
  LET crpix == get_crpix(proj_crpix1, proj_crpix2, Xcell, Ycell, x, y)
  IN  [RA_min  |-> RA - (Xcell - crpix[1]),
       RA_max  |-> RA - (0 - crpix[1]),
       dec_min |-> Dec + (0 - crpix[2]),
       dec_max |-> Dec + (Ycell - crpix[2])]

\* line 90: the rectangle of the image and that of the sub-tile, both
\* closed, intersect
Intersects(f, c) ==
  /\ f.ra_min <= c.RA_max /\ c.RA_min <= f.ra_max
  /\ f.dec_min <= c.dec_max /\ c.dec_min <= f.dec_max

\* lines 66-69
ProjcellName(projcell_id) ==
  IF projcell_id < 1000 THEN <<"0">> \o Str(projcell_id) ELSE Str(projcell_id)

\* lines 62-63
ny == 10
nx == 10

\* lines 57-100: the rows of overlap_cells, y by y and x by x
ps1_cell_coord(f, projcell_id, Xcell, Ycell, ra_center, dec_center, crpix1, crpix2) ==
  LET Corners(n) == get_RADEC_coord(crpix1, crpix2, Xcell, Ycell,
                                    n % nx, n \div nx, ra_center, dec_center)
      Row(n) ==
        LET c == Corners(n)
        IN  [projcell_id |-> ProjcellName(projcell_id),
             cell_id |-> <<"0", DigitChars[(n \div nx) + 1], DigitChars[(n % nx) + 1]>>,
             RA_min |-> c.RA_min, RA_max |-> c.RA_max,
             dec_min |-> c.dec_min, dec_max |-> c.dec_max]
      hits == SelectSeq([n \in 1..(ny * nx) |-> n - 1],
                        LAMBDA n : Intersects(f, Corners(n)))
  IN  [k \in 1..Len(hits) |-> Row(hits[k])]

\* np.rint(whole + num / den), den > 0: to the nearest integer, a half to
\* the even one
RInt(whole, num, den) ==
  LET q == whole + (num \div den)
      r == num % den
  IN  IF 2 * r < den THEN q
      ELSE IF 2 * r > den THEN q + 1
      ELSE IF q % 2 = 0 THEN q ELSE q + 1

\* lines 140-141
ProjcellIdx(z, ra) == RInt(z.PROJCELL, ra * z.NBAND, FullCirclePix)

\* np.arange(a, b + 1)
Arange(a, b) == [k \in 1..(IF b >= a THEN b - a + 1 ELSE 0) |-> a + k - 1]

\* images that are a point of one sub-tile: of the sub-tiles 053 and 063 of
\* the first cell of the second zone, the points at these offsets in pixels
\* from the corner of least RA and Dec
TileOffsets == {100, 490, 31500, 62510, 62900}
TilePoints ==
  LET z == ps1grid[2]
      Corners(n) == get_RADEC_coord(z.CRPIX1, z.CRPIX2, z.XCELL, z.YCELL,
                                    n % nx, n \div nx, 0, z.DEC)
  IN  {[ra_min |-> Corners(n).RA_min + a, ra_max |-> Corners(n).RA_min + a,
        dec_min |-> Corners(n).dec_min + b, dec_max |-> Corners(n).dec_min + b] :
         n \in {53, 63}, a \in TileOffsets, b \in TileOffsets}

\* the extents of the corners of the images given to ps1_grid
ImageExtents == {InPixels(f) : f \in Footprints} \cup TilePoints

\* line 124
ZoneMask(z, f) ==
  \/ (z.DEC_MIN < f.dec_min /\ z.DEC_MAX > f.dec_min)
  \/ (z.DEC_MIN < f.dec_max /\ z.DEC_MAX > f.dec_max)

\* lines 116-131; line 127 raises IndexError when the mask selects no zone
GridStart ==
  /\ gpc = "start"
  /\ \E f \in ImageExtents :
       /\ im' = f
       /\ LET sel == SelectSeq(ps1grid, LAMBDA z : ZoneMask(z, im'))
          IN  IF sel = <<>>
              THEN /\ gpc' = "raised"
                   /\ zonesLeft' = <<>>
              ELSE /\ gpc' = "zones"
                   /\ zonesLeft' = Arange(sel[1].ZONE, sel[Len(sel)].ZONE)
  /\ projcell_idx_list' = <<>>
  /\ all_cells' = <<>>
  /\ UNCHANGED <<queried, gridResult>>

\* line 136
IdxBkpInit == -1

\* lines 136-145: the indices of ra_min and ra_max appended to the list,
\* each only if it differs from the one before
IdxAppended(lst, z, f) ==
  LET a == ProjcellIdx(z, f.ra_min)
      b == ProjcellIdx(z, f.ra_max)
  IN  lst \o (IF a # IdxBkpInit THEN <<a>> ELSE <<>>) \o (IF b # a THEN <<b>> ELSE <<>>)

\* line 147
CellRange(lst) == Arange(lst[1], lst[Len(lst)])

\* lines 148-161: the tables of the cells of cs that are not empty
RECURSIVE CellQueries(_, _, _)
CellQueries(cs, z, f) ==
  IF cs = <<>> THEN <<>>
  ELSE LET cell_id == Head(cs)
           ra_center == ((cell_id - z.PROJCELL) * FullCirclePix) \div z.NBAND
           q == ps1_cell_coord(f, cell_id, z.XCELL, z.YCELL, ra_center, z.DEC,
                               z.CRPIX1, z.CRPIX2)
       IN  (IF Len(q) > 0 THEN <<q>> ELSE <<>>) \o CellQueries(Tail(cs), z, f)

\* one turn of the loop of line 134; float() of a column with no row
\* raises TypeError
GridZone ==
  /\ gpc = "zones"
  /\ zonesLeft # <<>>
  /\ LET rows == SelectSeq(ps1grid, LAMBDA z : z.ZONE = Head(zonesLeft))
     IN  IF rows = <<>>
         THEN /\ gpc' = "raised"
              /\ UNCHANGED <<projcell_idx_list, all_cells, queried>>
         ELSE /\ gpc' = "zones"
              /\ projcell_idx_list' = IdxAppended(projcell_idx_list, rows[1], im)
              /\ queried' = Append(queried, [zone |-> Head(zonesLeft),
                                             cells |-> CellRange(projcell_idx_list')])
              /\ all_cells' = all_cells
                     \o CellQueries(CellRange(projcell_idx_list'), rows[1], im)
  /\ zonesLeft' = Tail(zonesLeft)
  /\ UNCHANGED <<im, gridResult>>

\* vstack(tables): the rows of the tables, one after the other
RECURSIVE Vstack(_)
Vstack(tables) ==
  IF tables = <<>> THEN <<>> ELSE Head(tables) \o Vstack(Tail(tables))

\* lines 163-168; vstack of an empty list raises
GridReturn ==
  /\ gpc = "zones"
  /\ zonesLeft = <<>>
  /\ IF Len(all_cells) = 1
     THEN /\ gridResult' = all_cells[1]
          /\ gpc' = "returned"
     ELSE IF all_cells = <<>>
     THEN /\ gpc' = "raised"
          /\ UNCHANGED gridResult
     ELSE /\ gridResult' = Vstack(all_cells)
          /\ gpc' = "returned"
  /\ UNCHANGED <<im, zonesLeft, projcell_idx_list, all_cells, queried>>

\* ------------------------------------------------- stacking: the co-adds
\* the characters of a list name, in the order of their codes
CharOrder ==
  <<" ", "-", "0", "1", "2", "3", "4", "5", "6", "7", "8", "9",
    "I", "T", "_", "d", "e", "f", "i", "l", "r">>

CharCode(c) == CHOOSE k \in 1..Len(CharOrder) : CharOrder[k] = c

\* a < b of two strings
RECURSIVE StrLess(_, _)
StrLess(a, b) ==
  IF b = <<>> THEN FALSE
  ELSE IF a = <<>> THEN TRUE
  ELSE IF Head(a) = Head(b) THEN StrLess(Tail(a), Tail(b))
  ELSE CharCode(Head(a)) < CharCode(Head(b))

\* np.unique of strings: each once, ascending
RECURSIVE SortedStrings(_)
SortedStrings(S) ==
  IF S = {} THEN <<>>
  ELSE LET m == CHOOSE x \in S : \A y \in S \ {x} : StrLess(x, y)
       IN  <<m>> \o SortedStrings(S \ {m})

\* lines 375-380: the name split at "_", every component but the last
\* followed by "_"
Prefix(name) ==
  LET us == {k \in 1..Len(name) : name[k] = "_"}
  IN  IF us = {} THEN <<>>
      ELSE SubSeq(name, 1, CHOOSE k \in us : \A j \in us : j <= k)

\* line 389: glob of pref + "???.list" in the files fs of path_lists
EpochLists(fs, pref) ==
  {n \in DOMAIN fs : Len(n) = Len(pref) + 3 /\ SubSeq(n, 1, Len(pref)) = pref}

\* lines 392-394: the list is not skipped
Stackable(fs, n) == Len(fs[n]) >= 2

\* line 369 is running or has returned
MakelistsRunning == pc \in {"lists", "done"}

\* line 369 has returned
MakelistsReturned == pc = "done"

\* lines 372-382
StackStart ==
  /\ MakelistsReturned
  /\ prefixes' = SortedStrings({Prefix(n) : n \in DOMAIN lists})
  /\ pc' = IF prefixes' = <<>> THEN "end" ELSE "stack"
  /\ UNCHANGED <<files, hr, obs_table, radius, deltaT, loopVars, outVars, swarp>>

\* lines 421-457: one call of swarp per list of imalists; ok[k + 1] is
\* whether the k-th of them succeeded
CoaddCalls(fs, imalists, ok) ==
  [k \in 1..Len(imalists) |->
     [header_only |-> FALSE, imageout |-> imalists[k], input |-> <<imalists[k]>>,
      images |-> fs[imalists[k]], ok |-> ok[k + 1]]]

\* one turn of the loop of line 385 (lines 386-459): the call of line 403,
\* then those of lines 421-457.  subprocess.call returns whatever swarp
\* does; the lists of a field are taken in ascending order of their names
StackField ==
  /\ pc = "stack"
  /\ LET pref == Head(prefixes)
         imalists == SortedStrings({n \in EpochLists(lists, pref) : Stackable(lists, n)})
     IN  \E ok \in [1..(Len(imalists) + 1) -> BOOLEAN] :
           swarp' = swarp
                      \o <<[header_only |-> TRUE, imageout |-> pref, input |-> imalists,
                            images |-> <<>>, ok |-> ok[1]]>>
                      \o CoaddCalls(lists, imalists, ok)
  /\ prefixes' = Tail(prefixes)
  /\ pc' = IF Len(prefixes) > 1 THEN "stack" ELSE "end"
  /\ UNCHANGED <<files, hr, obs_table, radius, deltaT, loopVars, outVars>>

\* ------------------------------------------ ps1_survey: the reference
\* prepare_PS1_sub's method argument
Methods == {"individual", "mosaic"}

\* line 178
auxiliaryFiles == <<"", ".mask">>

\* lines 186-191: the file of a cell; the names cell_file and
\* local_cell_file are one to one with the cell's two names and aux
CellFile(cell, aux) == <<cell.projcell_id, cell.cell_id, aux>>

\* substraction.py line 65 has returned the table
GridReturned == gpc = "returned"

\* substraction.py line 67, then lines 228-243 and 173-181: the call with
\* the table ps1_grid returned; a later call has the arguments of the first
PrepStart ==
  /\ GridReturned
  /\ spc = "idle"
  /\ call < MaxCalls
  /\ Len(gridResult) <= MaxCells
  /\ cell_table' = gridResult
  /\ IF call = 0 THEN method' \in Methods ELSE method' = method
  /\ call' = call + 1
  /\ file_list' = <<>>
  /\ turn' = 1
  /\ spc' = IF cell_table' = <<>> THEN "return" ELSE "download"
  /\ UNCHANGED <<ps1Dir, ps1RescaledDir, mosaicfile, fetched, rescaled, results>>

\* one turn of the loop of line 185 (lines 186-221) within the loop of
\* line 181; got is whether curl left the file
PrepCell ==
  /\ spc = "download"
  /\ LET cell == cell_table[(turn + 1) \div 2]
         aux  == auxiliaryFiles[2 - (turn % 2)]
         f    == CellFile(cell, aux)
     IN  \E got \in BOOLEAN :
           /\ IF f \in ps1Dir
              THEN UNCHANGED <<ps1Dir, fetched>>
              ELSE /\ ps1Dir' = IF got THEN ps1Dir \cup {f} ELSE ps1Dir
                   /\ fetched' = Append(fetched, [call |-> call, file |-> f, got |-> got])
           /\ IF aux = "" /\ f \in ps1Dir' /\ f \notin ps1RescaledDir
              THEN /\ ps1RescaledDir' = ps1RescaledDir \cup {f, CellFile(cell, ".mask")}
                   /\ rescaled' = Append(rescaled, [call |-> call, file |-> f])
              ELSE UNCHANGED <<ps1RescaledDir, rescaled>>
           /\ file_list' = Append(file_list, f)
  /\ turn' = turn + 1
  /\ spc' = IF turn = 2 * Len(cell_table) THEN "return" ELSE "download"
  /\ UNCHANGED <<call, method, cell_table, mosaicfile, results>>

\* lines 253-256
Triples(ps1files) ==
  [k \in 1..(Len(ps1files) \div 2) |->
     [input |-> "inputimage", ref |-> ps1files[2 * k - 1], mask |-> ps1files[2 * k]]]

\* lines 250-251: the names create_ps1_mosaic returns
MosaicTriple ==
  [input |-> "inputimage", ref |-> "ps1_mosaic", mask |-> "ps1_mosaic_mask"]

\* lines 244-259; made is whether swarp left the mosaic
PrepReturn ==
  /\ spc = "return"
  /\ IF method = "mosaic"
     THEN IF mosaicfile
          THEN /\ results' = Append(results, <<>>)
               /\ UNCHANGED mosaicfile
          ELSE /\ results' = Append(results, <<MosaicTriple>>)
               /\ \E made \in BOOLEAN : mosaicfile' = made
     ELSE /\ results' = Append(results, Triples(file_list))
          /\ UNCHANGED mosaicfile
  /\ spc' = "idle"
  /\ UNCHANGED <<call, method, cell_table, turn, file_list, ps1Dir, ps1RescaledDir,
                 fetched, rescaled>>

\* ------------------------------------------------------- specification
\* line 279: the radius in degrees
RadiusDeg(arcmin) == arcmin \div 60

Init ==
  /\ pc = "read"
  /\ files = <<>>
  /\ hr = None
  /\ obs_table = <<>>
  /\ radius \in {RadiusDeg(r) : r \in RadiusArcmin}
  /\ deltaT \in DeltaTs
  /\ radius = 0 => deltaT = 0
  /\ keys = <<>>
  /\ loopTable = <<>>
  /\ i = 0
  /\ field_id = 0
  /\ fkeys = <<>>
  /\ JD_ref = 0
  /\ epoch_id = 0
  /\ groups = <<>>
  /\ lists = <<>>
  /\ fields_list = <<>>
  /\ gpc = "start"
  /\ im = [ra_min |-> 0, ra_max |-> 0, dec_min |-> 0, dec_max |-> 0]
  /\ zonesLeft = <<>>
  /\ projcell_idx_list = <<>>
  /\ all_cells = <<>>
  /\ queried = <<>>
  /\ gridResult = <<>>
  /\ prefixes = <<>>
  /\ swarp = <<>>
  /\ spc = "idle"
  /\ call = 0
  /\ method = "unset"
  /\ cell_table = <<>>
  /\ turn = 0
  /\ file_list = <<>>
  /\ ps1Dir = {}
  /\ ps1RescaledDir = {}
  /\ mosaicfile = FALSE
  /\ fetched = <<>>
  /\ rescaled = <<>>
  /\ results = <<>>

\* makelists on a directory of images
Next ==
  \/ \E hdr \in Headers : ReadImage(hdr) /\ UNCHANGED <<files, gridVars, toolVars>>
  \/ Sort /\ UNCHANGED <<gridVars, toolVars>>
  \/ FieldStartPartition /\ UNCHANGED <<gridVars, toolVars>>
  \/ FieldAssign /\ UNCHANGED <<gridVars, toolVars>>
  \/ EpochStartField /\ UNCHANGED <<gridVars, toolVars>>
  \/ EpochAssign /\ UNCHANGED <<gridVars, toolVars>>
  \/ WriteList /\ UNCHANGED <<gridVars, toolVars>>

Spec == Init /\ [][Next]_vars

\* lines 85, 90: the header holds DATE-OBS or JD
HasTime(hdr) == hdr.DATE_OBS # None \/ hdr.JD # None

\* the loop over filenames, files recording of each image opened whether
\* its header held a time
NextRead ==
  \/ \E hdr \in Headers :
       ReadImage(hdr) /\ files' = Append(files, HasTime(hdr)) /\ UNCHANGED <<gridVars, toolVars>>
  \/ Sort /\ UNCHANGED <<gridVars, toolVars>>

SpecRead == Init /\ [][NextRead]_vars

\* ps1_grid on the corners of an image
NextGrid ==
  \/ GridStart /\ UNCHANGED <<stackVars, toolVars>>
  \/ GridZone /\ UNCHANGED <<stackVars, toolVars>>
  \/ GridReturn /\ UNCHANGED <<stackVars, toolVars>>

SpecGrid == Init /\ [][NextGrid]_vars

\* the headers of the images stacking is run on
ToolHeaders ==
  {h \in Headers : /\ h.JD = None
                   /\ h.DATE_OBS \in {Some(10), Some(12)}
                   /\ h.CRVAL \in {<<0, 0>>, <<180, 80>>}}

\* stacking on a directory of images, or substraction of one image: the
\* table of its sky cells, then prepare_PS1_sub, called again after it
\* returned
NextTools ==
  \/ \E hdr \in ToolHeaders :
       gpc = "start" /\ ReadImage(hdr) /\ UNCHANGED <<files, gridVars, toolVars>>
  \/ gpc = "start" /\ Sort /\ UNCHANGED <<gridVars, toolVars>>
  \/ FieldStartPartition /\ UNCHANGED <<gridVars, toolVars>>
  \/ FieldAssign /\ UNCHANGED <<gridVars, toolVars>>
  \/ EpochStartField /\ UNCHANGED <<gridVars, toolVars>>
  \/ EpochAssign /\ UNCHANGED <<gridVars, toolVars>>
  \/ WriteList /\ UNCHANGED <<gridVars, toolVars>>
  \/ StackStart /\ UNCHANGED <<gridVars, prepVars>>
  \/ StackField /\ UNCHANGED <<gridVars, prepVars>>
  \/ pc = "read" /\ obs_table = <<>> /\ GridStart /\ UNCHANGED <<stackVars, toolVars>>
  \/ GridZone /\ UNCHANGED <<stackVars, toolVars>>
  \/ GridReturn /\ UNCHANGED <<stackVars, toolVars>>
  \/ PrepStart /\ UNCHANGED <<stackVars, gridVars, swarpVars>>
  \/ PrepCell /\ UNCHANGED <<stackVars, gridVars, swarpVars>>
  \/ PrepReturn /\ UNCHANGED <<stackVars, gridVars, swarpVars>>

SpecTools == Init /\ [][NextTools]_vars

\* ------------------------------------------------------------ the claims
\* table_obs has returned
\* table_obs has just returned (line 281): no list is written yet
TableDone == pc = "lists" /\ fields_list = <<>>

RowsOf(tbl) == Range(tbl)

\* the position in the table of the row r
PosOf(r) == r.idx

SameField(a, b) == KeyOf(a) = KeyOf(b) /\ a.fieldID = b.fieldID

\* the first-assigned member of the field of r: the loop of line 177 assigns
\* in table order
Creator(r) ==
  LET S == {PosOf(x) : x \in {y \in RowsOf(obs_table) : SameField(y, r)}}
  IN  obs_table[CHOOSE k \in S : \A m \in S : k <= m]

Sep(a, b) == Separation(a.RA, a.Dec, b.RA, b.Dec)

\* what the header of an image gave to the row r
EntryOf(r) ==
  [Telescope |-> r.Telescope, Instrument |-> r.Instrument, Filter |-> r.Filter,
   RA |-> r.RA, Dec |-> r.Dec, JD |-> r.JD]

\* as many rows of tbl as entries of the lists are like e
SameCount(entries, tbl, e) ==
  Cardinality({k \in 1..Len(entries) : entries[k] = e})
    = Cardinality({k \in 1..Len(tbl) : EntryOf(tbl[k]) = e})

\* C1: after table_obs every record has a fieldID >= 1 and an epochID >= 1,
\* and no record is dropped: the table the sort makes holds every image read
\* once, and no later step loses, adds or moves a row.  The fields of a
\* partition, the rows sharing a fieldID, then cover it disjointly
C1_EveryRecordAssigned ==
  /\ [](TableDone =>
          \A r \in RowsOf(obs_table) : r.fieldID >= 1 /\ r.epochID >= 1)
  /\ [][/\ pc \notin {"read", "error"} =>
             /\ Len(obs_table') = Len(obs_table)
             /\ \A k \in 1..Len(obs_table) :
                  /\ obs_table'[k].idx = k
                  /\ EntryOf(obs_table'[k]) = EntryOf(obs_table[k])
        /\ (pc = "read" /\ pc' \notin {"read", "error"}) =>
             /\ Len(obs_table') = Len(obs_table)
             /\ \A e \in RowsOf(obs_table) : SameCount(obs_table, obs_table', e)]_vars

C1_Witness ==
  /\ pc = "done"
  /\ Len(obs_table) = MaxImages
  /\ \E a, b \in RowsOf(obs_table) : KeyOf(a) # KeyOf(b)
  /\ \E a, b \in RowsOf(obs_table) : KeyOf(a) = KeyOf(b) /\ a.fieldID # b.fieldID

\* C2: after table_obs the reference coordinate of every record is the
\* coordinate of the first-assigned member of the record's own field
C2_RefIsOwnFieldCreator ==
  TableDone =>
    \A r \in RowsOf(obs_table) :
      /\ r.RA_ref = Some(Creator(r).RA)
      /\ r.Dec_ref = Some(Creator(r).Dec)

\* C3: a record that joined an existing field lies at a separation strictly
\* less than the radius from the first-assigned member of that field
C3_JoinersWithinRadius ==
  pc \notin {"read", "error"} =>
    \A r \in RowsOf(obs_table) :
      (r.fieldID # 0 /\ Creator(r).idx # r.idx) => Sep(r, Creator(r)) < radius

C3_Witness ==
  /\ TableDone
  /\ \E r \in RowsOf(obs_table) :
       /\ Creator(r).idx # r.idx
       /\ Sep(r, Creator(r)) > 0

\* the fields of the partition of r that exist when r is processed, each
\* given by its first-assigned member, and those within the radius of r
FieldsBefore(r) ==
  {c \in RowsOf(obs_table) :
     KeyOf(c) = KeyOf(r) /\ Creator(c).idx = c.idx /\ PosOf(c) < PosOf(r)}

QualifyingBefore(r) == {c \in FieldsBefore(r) : Sep(r, c) < radius}

\* C4: whatever the radius, a record joins the field of least separation
\* among the existing fields nearer than the radius, and founds a new field
\* exactly when no existing field is nearer than the radius
C4_NearestQualifyingField ==
  TableDone =>
    \A r \in RowsOf(obs_table) :
      LET Q == QualifyingBefore(r)
      IN  /\ (Creator(r).idx = r.idx) <=> (Q = {})
          /\ Q # {} => /\ Creator(r) \in Q
                       /\ \A c \in Q : Sep(r, Creator(r)) <= Sep(r, c)

FieldMembers(r) == {x \in RowsOf(obs_table) : SameField(x, r)}

EpochMembers(r) == {x \in FieldMembers(r) : x.epochID = r.epochID}

\* C5: in every field the epoch ids are exactly 1..k, the earliest record
\* has epoch 1, and in ascending time the epoch id never decreases and rises
\* by one at each change
C5_EpochsContiguous ==
  TableDone =>
    \A r \in RowsOf(obs_table) :
      /\ \A e \in 1..r.epochID : \E x \in FieldMembers(r) : x.epochID = e
      /\ (\A x \in FieldMembers(r) : r.JD <= x.JD) => r.epochID = 1
      /\ \A x \in FieldMembers(r) : r.JD <= x.JD => r.epochID <= x.epochID
      /\ \A x \in FieldMembers(r) :
           (PosOf(x) > PosOf(r)
              /\ ~ \E y \in FieldMembers(r) : PosOf(r) < PosOf(y) /\ PosOf(y) < PosOf(x))
             => x.epochID \in {r.epochID, r.epochID + 1}

C5_Witness ==
  /\ TableDone
  /\ \E a, b, c \in RowsOf(obs_table) :
       /\ SameField(a, b) /\ SameField(b, c)
       /\ a.idx # b.idx
       /\ a.epochID = 1 /\ b.epochID = 1 /\ c.epochID = 2

\* the reference of the epoch of r: the time of its first member
EpochRef(r) ==
  LET S == {PosOf(x) : x \in EpochMembers(r)}
  IN  obs_table[CHOOSE k \in S : \A m \in S : k <= m].JD

\* C6: the reference of an epoch is the time of its first member, which is
\* its earliest; every member's time lies in [reference, reference + deltaT];
\* the references rise strictly with the epoch id and no record of a later
\* epoch is as early as a record of an earlier one.  While the epochs of a
\* field are being made, JD_ref is the reference of the running epoch
C6_EpochWindows ==
  /\ TableDone =>
       \A r \in RowsOf(obs_table) :
         /\ EpochRef(r) <= r.JD
         /\ r.JD <= EpochRef(r) + deltaT
         /\ \A x \in FieldMembers(r) :
              r.epochID < x.epochID => (EpochRef(r) < EpochRef(x) /\ r.JD < x.JD)
  /\ (pc = "epoch" /\ i >= 1) =>
       /\ loopTable[i - 1].epochID = 0
       /\ JD_ref = EpochRef([obs_table[PosOf(loopTable[i - 1])] EXCEPT !.epochID = epoch_id])

C6_Witness ==
  /\ TableDone
  /\ \E a, b, c \in RowsOf(obs_table) :
       /\ SameField(a, b) /\ SameField(b, c)
       /\ a.epochID = 1 /\ b.epochID = 1 /\ c.epochID = 2
       /\ b.JD = a.JD + deltaT
       /\ deltaT > 0

\* the groups of the table
AllGroups == Range(GroupList(obs_table, GroupKeys(obs_table)))

\* C7: two distinct groups get distinct list names, so that every group has
\* a list file of its own
C7_DistinctListNames ==
  pc = "done" =>
    /\ \A g, h \in AllGroups :
         g # h => GroupName(obs_table, g) # GroupName(obs_table, h)
    /\ Cardinality(DOMAIN lists) = Cardinality(AllGroups)

\* C8: no image whose header has neither DATE-OBS nor JD gets an entry in
\* the lists the catalog is made of
C8_NoRowWithoutTime ==
  pc = "read" => \A k \in 1..Len(obs_table) : files[k]

\* the sub-tiles of the grid the image overlaps: those of every cell of
\* every zone
OverlapsSomeTile(f) ==
  \E k \in 1..Len(ps1grid) :
    \E c \in ps1grid[k].PROJCELL .. (ps1grid[k].PROJCELL + ps1grid[k].NBAND - 1) :
      CellQueries(<<c>>, ps1grid[k], f) # <<>>

\* C9: for an image that overlaps no sub-tile ps1_grid does not raise, and
\* what it returns is empty
C9_NoOverlapReturnsEmpty ==
  (gpc # "start" /\ ~ OverlapsSomeTile(im)) =>
     /\ gpc # "raised"
     /\ gpc = "returned" => gridResult = <<>>

\* the zone of the catalog of number n
ZoneOf(n) == CHOOSE z \in Range(ps1grid) : z.ZONE = n

\* C10: the cells evaluated for a zone are the whole numbers from the index
\* of ra_min to the index of ra_max, both computed with that zone's PROJCELL
\* and NBAND
C10_CellsOfOwnZone ==
  \A k \in 1..Len(queried) :
    queried[k].cells = Arange(ProjcellIdx(ZoneOf(queried[k].zone), im.ra_min),
                              ProjcellIdx(ZoneOf(queried[k].zone), im.ra_max))

\* the zones ps1_grid evaluates: those its loop has visited and those it
\* has still to visit
ZonesEvaluated == {queried[k].zone : k \in 1..Len(queried)} \cup Range(zonesLeft)

\* the zones whose closed interval of declination meets that of the image
ZonesMeeting(f) ==
  {z.ZONE : z \in {y \in Range(ps1grid) :
                     y.DEC_MIN <= f.dec_max /\ f.dec_min <= y.DEC_MAX}}

\* C11: the zones ps1_grid evaluates are the zones of the catalog whose
\* closed interval [DEC_MIN, DEC_MAX] meets the extent [dec_min, dec_max]
\* of the image
C11_ZonesMeetingExtent ==
  gpc # "start" => ZonesEvaluated = ZonesMeeting(im)

\* an extent that every sub-tile meets
Everywhere ==
  [ra_min |-> 0 - 10 * FullCirclePix, ra_max |-> 10 * FullCirclePix,
   dec_min |-> 0 - FullCirclePix, dec_max |-> FullCirclePix]

\* the hundred sub-tiles of the cell c as the loop of zone z computes them
TilesOf(z, c) == Head(CellQueries(<<c>>, z, Everywhere))

\* the image lies inside the bounds of the sub-tile t
Inside(f, t) ==
  /\ t.RA_min <= f.ra_min /\ f.ra_max <= t.RA_max
  /\ t.dec_min <= f.dec_min /\ f.dec_max <= t.dec_max

\* the image lies inside the sub-tile t more than 480 pixels from its edges
InsideClear(f, t) ==
  /\ t.RA_min + 480 < f.ra_min /\ f.ra_max < t.RA_max - 480
  /\ t.dec_min + 480 < f.dec_min /\ f.dec_max < t.dec_max - 480

\* the sub-tiles of the cells evaluated in the k-th zone visited
TilesEvaluated(k) ==
  UNION {Range(TilesOf(ZoneOf(queried[k].zone), c)) : c \in Range(queried[k].cells)}

C13_GroupWithinRadius ==
  TableDone =>
    \A a, b \in RowsOf(obs_table) :
      (SameField(a, b) /\ a.epochID = b.epochID) => Sep(a, b) <= radius

\* C14: with a radius of 0 two records of a partition share a field exactly
\* when their coordinates are the same
C14_ZeroRadiusFields ==
  (TableDone /\ radius = 0) =>
    \A a, b \in RowsOf(obs_table) :
      KeyOf(a) = KeyOf(b) =>
        ((a.fieldID = b.fieldID) <=> (a.RA = b.RA /\ a.Dec = b.Dec))

\* C15: with a deltaT of 0 two records of a field share an epoch exactly
\* when their times are equal
C15_ZeroDeltaTEpochs ==
  (TableDone /\ deltaT = 0) =>
    \A a, b \in RowsOf(obs_table) :
      SameField(a, b) => ((a.epochID = b.epochID) <=> (a.JD = b.JD))

C15_Witness ==
  /\ TableDone
  /\ deltaT = 0
  /\ \E a, b, c \in RowsOf(obs_table) :
       /\ SameField(a, b) /\ SameField(b, c)
       /\ a.idx # b.idx /\ a.JD = b.JD /\ a.epochID = b.epochID
       /\ c.JD # a.JD /\ c.epochID # a.epochID

\* the rows of tbl of the partition key
RowsOfKey(tbl, key) == SelectSeq(tbl, LAMBDA r : KeyOf(r) = key)

\* the rows as they are before line 154
Unassigned(rows) ==
  [k \in 1..Len(rows) |->
     [rows[k] EXCEPT !.fieldID = 0, !.epochID = 0, !.RA_ref = None,
                     !.Dec_ref = None, !.stack_filename = None]]

\* the loop of line 177 from position pos on, over the copy rows, on a
\* table tbl that holds one partition only
RECURSIVE FieldPass(_, _, _, _, _)
FieldPass(tbl, key, rows, pos, fid) ==
  IF pos > Len(rows) THEN tbl
  ELSE IF rows[pos].fieldID # 0 THEN FieldPass(tbl, key, rows, pos + 1, fid)
  ELSE LET acc == ClosestField(tbl, key, rows[pos], radius)
       IN  FieldPass(AssignField(tbl, rows[pos], acc, fid), key, rows, pos + 1,
                     IF acc.field_ref # NoField THEN fid ELSE fid + 1)

\* the loop of line 232 from position pos on
RECURSIVE EpochPass(_, _, _, _, _)
EpochPass(tbl, rows, pos, ref, eid) ==
  IF pos > Len(rows) THEN tbl
  ELSE IF SameEpoch(rows[pos].JD, ref, deltaT)
  THEN EpochPass(SetEpoch(tbl, rows[pos].idx, eid), rows, pos + 1, ref, eid)
  ELSE EpochPass(SetEpoch(tbl, rows[pos].idx, NextEpoch(eid)), rows, pos + 1,
                 rows[pos].JD, NextEpoch(eid))

\* the loop of line 228 over the fields fks
RECURSIVE EpochsOfFields(_, _, _)
EpochsOfFields(tbl, key, fks) ==
  IF fks = <<>> THEN tbl
  ELSE LET rows == FieldRows(tbl, key, Head(fks))
       IN  EpochsOfFields(EpochPass(tbl, rows, 1, rows[1].JD, 1), key, Tail(fks))

\* lines 154-240 on a table that holds the rows of the partition key only,
\* in the order they have in obs_table
RunAlone(key) ==
  LET rows == Unassigned(RowsOfKey(obs_table, key))
      t1   == SetField(rows, rows[1].idx, 1, Some(rows[1].RA), Some(rows[1].Dec))
      t2   == FieldPass(t1, key, t1, 1, 1)
  IN  EpochsOfFields(t2, key, FieldKeys(t2))

\* what table_obs assigns to the rows
Assignments(rows) ==
  [k \in 1..Len(rows) |->
     <<rows[k].fieldID, rows[k].epochID, rows[k].RA_ref, rows[k].Dec_ref>>]

\* C16: the fieldID, epochID and reference coordinate of the records of a
\* partition are those table_obs gives them when the catalog holds no
\* record of another partition, the records being taken in the order the
\* sort of line 152 left them in
C16_PartitionsIndependent ==
  TableDone =>
    \A key \in Range(GroupKeys(obs_table)) :
      Assignments(RowsOfKey(obs_table, key)) = Assignments(RunAlone(key))

C16_Witness ==
  /\ TableDone
  /\ \E a, b, c \in RowsOf(obs_table) :
       /\ KeyOf(a) = KeyOf(c) /\ KeyOf(a) # KeyOf(b)
       /\ a.idx < b.idx /\ b.idx < c.idx
       /\ a.fieldID # c.fieldID

\* the files the call number n of prepare_PS1_sub had curl leave in ps1Dir
FetchedBy(n) == {e.file : e \in {x \in Range(fetched) : x.call = n /\ x.got}}

\* the files the call number n of prepare_PS1_sub rescaled
RescaledBy(n) == {e.file : e \in {x \in Range(rescaled) : x.call = n}}

\* C17: once prepare_PS1_sub has returned twice for the same cell table,
\* input image and method, the second call has run curl for no file the
\* first had left in ps1Dir, has rescaled no file the first had rescaled,
\* and has returned the triples the first returned
C17_SecondCallSame ==
  Len(results) >= 2 =>
    /\ \A e \in Range(fetched) : e.call = 2 => e.file \notin FetchedBy(1)
    /\ RescaledBy(2) \cap RescaledBy(1) = {}
    /\ results[2] = results[1]

\* every group of the table has had its list written
ListsWritten ==
  /\ groups = <<>>
  /\ Len(fields_list) = Len(GroupList(obs_table, GroupKeys(obs_table)))
  /\ Range(fields_list) = DOMAIN lists

\* a collaborator has run in the step: swarp, curl, linear_rescale_ps1 and
\* scamp, or the swarp of create_ps1_mosaic
CollaboratorRan ==
  \/ swarp' # swarp
  \/ fetched' # fetched
  \/ rescaled' # rescaled
  \/ (spc = "return" /\ method = "mosaic" /\ ~mosaicfile)

\* C18: whenever swarp has been called in stacking every group has its list
\* written, and whenever prepare_PS1_sub has been entered ps1_grid has
\* returned the table of the image and that table is the one the files are
\* fetched for; and a step in which a collaborator runs, failing or not,
\* leaves the fieldID, epochID and reference coordinate of every record,
\* the lists and the table of sky cells as they were
C18_ResultsBeforeCollaborators ==
  /\ [](swarp # <<>> => ListsWritten)
  /\ [](call > 0 => GridReturned /\ cell_table = gridResult)
  /\ [][CollaboratorRan =>
          /\ Assignments(obs_table)' = Assignments(obs_table)
          /\ lists' = lists
          /\ gridResult' = gridResult]_vars

\* a download has failed and a file has been rescaled
C18_Witness ==
  /\ \E e \in Range(fetched) : ~e.got
  /\ rescaled # <<>>
  /\ cell_table = gridResult
  /\ cell_table # <<>>

\* the rows of the table exist: line 152 has sorted them
TableSorted == pc \notin {"read", "error"}

\* C19: a step of table_obs changes the fieldID of a record only from 0 to
\* a value of 1 or more, and only while no record has an epochID; it changes
\* the epochID of a record only from 0 to a value of 1 or more, and only
\* when every record has its fieldID; so each is written once, the fieldIDs
\* before the epochIDs, and no later turn changes a value written
C19_WrittenOnceFieldsFirst ==
  [][TableSorted =>
       \A k \in 1..Len(obs_table) :
         /\ obs_table'[k].idx = obs_table[k].idx
         /\ obs_table'[k].fieldID # obs_table[k].fieldID =>
              /\ obs_table[k].fieldID = 0
              /\ obs_table'[k].fieldID >= 1
              /\ \A j \in 1..Len(obs_table) : obs_table[j].epochID = 0
         /\ obs_table'[k].epochID # obs_table[k].epochID =>
              /\ obs_table[k].epochID = 0
              /\ obs_table'[k].epochID >= 1
              /\ \A j \in 1..Len(obs_table) : obs_table[j].fieldID >= 1]_vars

\* the epoch loop is at work on a catalog of two fields or more: a record
\* of the second epoch of its field is written, another not yet
C19_Witness ==
  /\ pc = "epoch"
  /\ \E a, b, c \in Range(obs_table) :
       /\ a.epochID = 1 /\ b.epochID = 2 /\ SameField(a, b) /\ a.idx < b.idx
       /\ c.epochID = 0 /\ c.fieldID >= 1 /\ ~SameField(a, c)

\* the images of the group g, as written to its list (lines 328-329)
GroupImages(g) ==
  LET rows == GroupRows(obs_table, g)
  IN  [k \in 1..Len(rows) |-> rows[k].idx]

\* the calls of swarp that co-added exactly the images imgs (lines 421-457)
CoaddsOf(imgs) ==
  {k \in 1..Len(swarp) : ~swarp[k].header_only /\ swarp[k].images = imgs}

\* C20: when stacking has ended, the images of a group of two or more have
\* been co-added by exactly one call of swarp, and those of a group of one
\* image by none
C20_CoaddedIffTwoOrMore ==
  pc = "end" =>
    \A g \in AllGroups :
      Cardinality(CoaddsOf(GroupImages(g))) = IF Len(GroupImages(g)) >= 2 THEN 1 ELSE 0

\* the projection cells of the zone z: NBAND cells from PROJCELL on
OwnCells(z) == z.PROJCELL .. (z.PROJCELL + z.NBAND - 1)

\* C21: for every zone ps1_grid has visited and each of the two right
\* ascensions of the image, from 0 up to but not 360 degrees, the index of
\* lines 140-141 is one of the zone's own cells; and a table returned
\* after the visit of one zone names cells of that zone only
C21_IndexInOwnZone ==
  /\ \A k \in 1..Len(queried) :
       \A ra \in {im.ra_min, im.ra_max} :
         0 <= ra /\ ra < FullCirclePix =>
           ProjcellIdx(ZoneOf(queried[k].zone), ra) \in OwnCells(ZoneOf(queried[k].zone))
  /\ gpc = "returned" /\ Len(queried) = 1 /\ 0 <= im.ra_min /\ im.ra_max < FullCirclePix =>
       \A row \in Range(gridResult) :
         row.projcell_id \in {ProjcellName(c) : c \in OwnCells(ZoneOf(queried[1].zone))}

====
